---- MODULE Spec2Model ----
(***************************************************************************)
(* Model of the conversion front end in src/streamlit_app.py: the          *)
(* "Start Conversion" request of main(), run_olmocr_conversion(),          *)
(* check_vllm_server_status(), latex_replace(), the external olmocr         *)
(* process it spawns, and the workspace directory they share.              *)
(*                                                                         *)
(* Every browser session runs main() in its own script thread, and all     *)
(* sessions use the one workspace named by WORKSPACE_DIR, so the model has  *)
(* two sessions over one file system.                                      *)
(***************************************************************************)
EXTENDS Integers, Sequences, FiniteSets, TLC

(***************************************************************************)
(* Bounds of the model.                                                    *)
(***************************************************************************)
\* start requests over all sessions
MaxJobs == 2
\* documents uploaded in one request
MaxUploads == 2
\* files the external process writes during one run
MaxWrites == 2
\* lines the external process prints during one run
MaxLines == 1
\* lines it prints during the one run whose log is followed line by line
MaxLogLines == 3

Sessions == {"s1", "s2"}

\* readings of time.time(), seconds
Times == {0, 1}

\* values of str(uuid.uuid4())[:8]
SessionIds == {"0a1b2c3d", "9f8e7d6c"}

\* names of uploaded documents (the uploader accepts type pdf only)
UploadNames == {"a.pdf", "b.pdf"}

\* outcomes of requests.get(base_url/v1/models, timeout=5)
ProbeOutcomes ==
    {"status_200", "status_401", "status_503", "connection_error", "timeout", "other_exception"}

\* exit statuses of the external process (negative: killed by a signal)
ExitCodes == {0, 137, -9}

\* contents the external process gives a markdown file
Texts == {"x", "\\[x\\]\\(y\\)"}

\* lines the external process prints
Lines == {"Processing page 1\n"}

\* lines of a log that is followed line by line.  The emoji of the source
\* are written by name between colons: :x: :boom: :skull: :warning: :check:
\* :plug: :fire:
LogLines ==
    {"Processing page 1\n",
     "ERROR page 2 :warning: retried\n",
     "WARNING slow, then SUCCESS\n",
     ":check: page 3\n",
     ":plug: reconnecting\n",
     "CONNECTION ERROR refused\n",
     "  \tindented \n"}

\* the job of a session that has made no request
NoJob == 0

(***************************************************************************)
(* Strings.                                                                *)
(***************************************************************************)
\* s[i-1:i-1+len(sub)] == sub of Python, false past the end of s
MatchAt(s, sub, i) ==
    /\ i >= 1
    /\ i + Len(sub) - 1 <= Len(s)
    /\ SubSeq(s, i, i + Len(sub) - 1) = sub

\* str.endswith
EndsWith(s, suffix) ==
    /\ Len(s) >= Len(suffix)
    /\ SubSeq(s, Len(s) - Len(suffix) + 1, Len(s)) = suffix

\* str.startswith
StartsWith(s, prefix) ==
    /\ Len(s) >= Len(prefix)
    /\ SubSeq(s, 1, Len(prefix)) = prefix

\* position of the first occurrence of sub in s at or after i, 0 if none
RECURSIVE Find(_, _, _)
Find(s, sub, i) ==
    IF i + Len(sub) - 1 > Len(s) THEN 0
    ELSE IF MatchAt(s, sub, i) THEN i
    ELSE Find(s, sub, i + 1)

\* re.sub(open (.*?) close, left \1 right, md, flags=re.DOTALL): leftmost,
\* non-greedy, non-overlapping matches, scanning from position i
RECURSIVE ReSub(_, _, _, _, _, _)
ReSub(md, open, close, left, right, i) ==
    IF i > Len(md) THEN ""
    ELSE IF MatchAt(md, open, i) /\ Find(md, close, i + Len(open)) # 0
         THEN LET j == Find(md, close, i + Len(open))
              IN  left \o SubSeq(md, i + Len(open), j - 1) \o right
                       \o ReSub(md, open, close, left, right, j + Len(close))
         ELSE SubSeq(md, i, i) \o ReSub(md, open, close, left, right, i + 1)

latex_replace(md) ==
    LET display == ReSub(md, "\\[", "\\]", "$$", "$$", 1)
    IN  ReSub(display, "\\(", "\\)", "$", "$", 1)

\* position of the last "." of a name, 0 if none
RECURSIVE LastDot(_, _)
LastDot(name, i) ==
    IF i = 0 THEN 0
    ELSE IF SubSeq(name, i, i) = "." THEN i
    ELSE LastDot(name, i - 1)

\* os.path.splitext(name)[0]; a leading dot does not start an extension
SplitExtStem(name) ==
    LET d == LastDot(name, Len(name))
    IN  IF d <= 1 THEN name ELSE SubSeq(name, 1, d - 1)

(***************************************************************************)
(* The workspace: a tree of directories and files.  A directory is the     *)
(* sequence of its components below the workspace root, a file is a        *)
(* directory and a leaf name.  Each file carries its bytes and the job     *)
(* whose request or process wrote it.                                      *)
(***************************************************************************)
workspace_dir == << >>
pdf_dir == <<"pdfs">>
outputs_dir == <<"outputs">>
results_dir == <<"results">>
markdown_dir == <<"markdown">>

File(dir, leaf) == [dir |-> dir, leaf |-> leaf]

\* what a file holds: its bytes (for an archive: its entries) and, for a
\* staged input or a file under the markdown directory, the job whose request
\* or process wrote it
Content(data, jb) == [data |-> data, entries |-> {}, job |-> jb]
Archive(entries, jb) == [data |-> "", entries |-> entries, job |-> jb]

\* file.endswith(".md")
IsMarkdown(p) == EndsWith(p.leaf, ".md")

work_index_file == File(workspace_dir, "work_index_list.csv.zstd")
zip_path == File(workspace_dir, "markdown_files.zip")

IsPrefix(d, e) == Len(d) <= Len(e) /\ SubSeq(e, 1, Len(d)) = d

\* os.path.exists of a directory, of a file
DirExists(f, d) == d \in f.dirs
FileExists(f, p) == p \in DOMAIN f.files

\* os.makedirs(d, exist_ok=True)
RECURSIVE Ancestors(_)
Ancestors(d) == IF d = << >> THEN {<< >>} ELSE {d} \cup Ancestors(SubSeq(d, 1, Len(d) - 1))

MakeDirs(f, d) == [f EXCEPT !.dirs = @ \cup Ancestors(d)]

\* shutil.rmtree(d): the directory, its subdirectories and every file below
RmTree(f, d) ==
    LET keep == {p \in DOMAIN f.files : ~IsPrefix(d, p.dir)}
    IN  [dirs |-> {e \in f.dirs : ~IsPrefix(d, e)},
         files |-> [p \in keep |-> f.files[p]]]

\* os.remove(p)
Remove(f, p) ==
    [f EXCEPT !.files = [q \in (DOMAIN f.files) \ {p} |-> f.files[q]]]

\* open(p, "wb").write(content): creates or truncates p
WriteFile(f, p, content) ==
    [f EXCEPT !.files = (p :> content) @@ f.files]

\* the files os.walk(d) visits
Walk(f, d) == {p \in DOMAIN f.files : IsPrefix(d, p.dir)}

\* os.path.relpath(p, base) for p below base
RelPath(p, base) == File(SubSeq(p.dir, Len(base) + 1, Len(p.dir)), p.leaf)

\* get_workspace_dirs(): pdfs and outputs are created when missing
get_workspace_dirs(f) == MakeDirs(MakeDirs(f, pdf_dir), outputs_dir)

(***************************************************************************)
(* run_olmocr_conversion, lines 98-132: clear the state of earlier runs.   *)
(***************************************************************************)
ClearWorkIndex(f) ==
    IF FileExists(f, work_index_file) THEN Remove(f, work_index_file) ELSE f

\* a clearing of the inputs that does not create the directory again
RemovePdfDir(f) ==
    IF DirExists(f, pdf_dir) THEN RmTree(f, pdf_dir) ELSE f

ClearPdfDir(f) ==
    IF DirExists(f, pdf_dir) THEN MakeDirs(RmTree(f, pdf_dir), pdf_dir) ELSE f

ClearResultsDir(f) ==
    IF DirExists(f, results_dir) THEN RmTree(f, results_dir) ELSE f

ClearMarkdownDir(f) ==
    IF DirExists(f, markdown_dir) THEN RmTree(f, markdown_dir) ELSE f

ClearPriorState(f) ==
    ClearMarkdownDir(ClearResultsDir(ClearPdfDir(ClearWorkIndex(f))))

(***************************************************************************)
(* run_olmocr_conversion, lines 134-150: stage the uploaded documents.     *)
(***************************************************************************)
\* f"{session_timestamp}_{session_id}_{pdf_file.name}"
unique_filename(ts, sid, name) == ToString(ts) \o "_" \o sid \o "_" \o name

StagedPath(ts, sid, doc) == File(pdf_dir, unique_filename(ts, sid, doc.name))

\* the workspace after the first n documents are written, in upload order
RECURSIVE StageInputs(_, _, _, _, _, _)
StageInputs(f, docs, ts, sid, jb, n) ==
    IF n = 0 THEN f
    ELSE WriteFile(StageInputs(f, docs, ts, sid, jb, n - 1),
                   StagedPath(ts, sid, docs[n]),
                   Content(docs[n].data, jb))

\* pdf_paths after the first n documents are written
StagedPaths(docs, ts, sid, n) == [i \in 1..n |-> StagedPath(ts, sid, docs[i])]

(***************************************************************************)
(* check_vllm_server_status: one GET with a timeout; the bare except turns *)
(* every exception into False.                                             *)
(***************************************************************************)
\* requests.get: an HTTP answer with its status code, or an exception
\* (ConnectionError, Timeout, anything else)
IsResponse(outcome) == StartsWith(outcome, "status_")
StatusCode(outcome) ==
    CASE outcome = "status_200" -> 200
      [] outcome = "status_401" -> 401
      [] outcome = "status_503" -> 503
      [] OTHER -> 0

\* a probe without the except clause: the exception leaves the function
ProbeWithoutExcept(outcome) ==
    IF IsResponse(outcome)
      THEN [raised |-> FALSE, value |-> StatusCode(outcome) = 200]
      ELSE [raised |-> TRUE, value |-> FALSE]

check_vllm_server_status(outcome) ==
    IF IsResponse(outcome)
      THEN [raised |-> FALSE, value |-> StatusCode(outcome) = 200]
      ELSE [raised |-> FALSE, value |-> FALSE]

\* the uploads of one request: one to MaxUploads documents; the i-th
\* document's bytes are its own
Docs(n) == [1..n -> UploadNames]
UploadChoices ==
    UNION {{[i \in 1..n |-> [name |-> names[i], data |-> "pdf-bytes-" \o ToString(i)]]
              : names \in Docs(n)} : n \in 1..MaxUploads}

Jobs == 1..MaxJobs

(***************************************************************************)
(* What the external process may write: markdown files at the top of the   *)
(* markdown directory and in a subdirectory (two of them with one leaf     *)
(* name), a file that is no markdown, and a markdown file outside the      *)
(* markdown directory.                                                     *)
(***************************************************************************)
ProcessOutputs ==
    ({File(markdown_dir, "a.md")} \X Texts)
        \cup {<<File(markdown_dir \o <<"d1">>, "a.md"), "x">>,
              <<File(markdown_dir \o <<"d1">>, "page.txt"), "x">>,
              <<File(markdown_dir, "b.md"), "x">>,
              <<File(outputs_dir, "stray.md"), "x">>}

\* str.strip(): whitespace is removed at both ends
IsSpace(c) == c \in {" ", "\t", "\n", "\r"}

RECURSIVE LStrip(_)
LStrip(line) ==
    IF Len(line) > 0 /\ IsSpace(SubSeq(line, 1, 1))
      THEN LStrip(SubSeq(line, 2, Len(line)))
      ELSE line

RECURSIVE RStrip(_)
RStrip(line) ==
    IF Len(line) > 0 /\ IsSpace(SubSeq(line, Len(line), Len(line)))
      THEN RStrip(SubSeq(line, 1, Len(line) - 1))
      ELSE line

\* a strip that removes the line's newline and nothing else
StripNewline(line) ==
    IF EndsWith(line, "\n") THEN SubSeq(line, 1, Len(line) - 1) ELSE line

Strip(line) == LStrip(RStrip(line))

(***************************************************************************)
(* main, lines 374-389: what is counted and how a line of the log is       *)
(* shown.                                                                  *)
(***************************************************************************)
ErrorMarkers == {":x:", ":boom:", ":skull:", "ERROR"}
WarningMarkers == {":warning:", "WARNING"}
SuccessMarkers == {":check:", "SUCCESS"}
\* what error_count and connection_errors look for
CountedErrorMarkers == {"ERROR", ":boom:", ":x:"}
ConnectionMarkers == {"CONNECTION ERROR", ":plug:"}

\* any(symbol in log_line for symbol in markers)
HasAny(log_line, markers) == \E symbol \in markers : Find(log_line, symbol, 1) # 0

\* a display that looks for the warning before the error
FormatWarningFirst(log_line) ==
    IF HasAny(log_line, WarningMarkers) THEN ":warning: " \o log_line
    ELSE IF HasAny(log_line, ErrorMarkers) THEN ":fire: " \o log_line
    ELSE IF HasAny(log_line, SuccessMarkers) THEN ":check: " \o log_line
    ELSE log_line

\* the if / elif / elif / else of lines 381-388
FormatLine(log_line) ==
    IF HasAny(log_line, ErrorMarkers) THEN ":fire: " \o log_line
    ELSE IF HasAny(log_line, WarningMarkers) THEN ":warning: " \o log_line
    ELSE IF HasAny(log_line, SuccessMarkers) THEN ":check: " \o log_line
    ELSE log_line

\* every line a process of the model prints, and what the loop makes of
\* each: its strip, its display, and whether the two counters count it
PrintedLines == Lines \cup LogLines
StripOf == [output \in PrintedLines |-> Strip(output)]
StrippedLines == {StripOf[output] : output \in PrintedLines}
FormatOf == [line \in StrippedLines |-> FormatLine(line)]
CountedAsError == {line \in StrippedLines : HasAny(line, CountedErrorMarkers)}
CountedAsConnectionError == {line \in StrippedLines : HasAny(line, ConnectionMarkers)}

\* formatted_log, rebuilt from all of log_lines at every line read
FormattedLog(lines) == [i \in 1..Len(lines) |-> FormatOf[lines[i]]]

NoProcess == [state |-> "none", stdout_open |-> FALSE, returncode |-> 0, writes |-> 0,
              emitted |-> << >>]
\* a child whose status poll() has collected
Reaped == [state |-> "reaped", stdout_open |-> FALSE, returncode |-> 0, writes |-> 0,
           emitted |-> << >>]
NoDownload == [kind |-> "none", data |-> "", file_name |-> "", entries |-> {}]

VARIABLES
    scope,                  \* who uses the workspace, fixed by Init
    fs,                     \* the workspace tree
    now,                    \* the last reading of the wall clock, seconds
    jobs,                   \* start requests so far
    pc,                     \* where each session's request stands
    job,                    \* the job of each session's current request
    uploaded_files,         \* st.file_uploader's documents
    probe,                  \* outcome and result of the gate's health probe
    pdf_paths,              \* run_olmocr_conversion's pdf_paths
    cleanup_session_files,  \* TRUE once run_olmocr_conversion has returned it
    process,                \* the external process of each job
    pipe,                   \* lines printed and not yet read, per job
    log_lines,              \* log_lines of the drain loop
    error_count,            \* error_count of the drain loop
    connection_errors,      \* connection_errors of the drain loop
    log_text,               \* the lines log_text.text_area shows
    return_code,            \* return_code after the loop: <<>> until set
    markdown_files,         \* the files the walk found
    download,               \* what st.download_button was given
    messages,               \* st.error / st.warning / st.success shown
    status_text,            \* the last status_text.text
    environ,                \* os.environ of the server: <<name, value>> pairs
    kwargs,                 \* the settings main passes to run_olmocr_conversion
    cmd,                    \* the argument vector run_olmocr_conversion returns
    built                   \* the build before the last one, with its inputs

vars == <<scope, fs, now, jobs, pc, job, uploaded_files, probe, pdf_paths,
          cleanup_session_files, process, pipe, log_lines, error_count,
          connection_errors, log_text, return_code,
          markdown_files, download, messages, status_text,
          environ, kwargs, cmd, built>>

log_vars == <<log_lines, error_count, connection_errors, log_text>>
request_vars == <<uploaded_files, probe, pdf_paths, cleanup_session_files,
                  log_vars, return_code, markdown_files, download, messages,
                  status_text>>
process_vars == <<process, pipe>>
build_vars == <<environ, kwargs, cmd, built>>

Msg(level, text, n) == <<level, text, n>>

(***************************************************************************)
(* main, lines 225-298: the settings of the sidebar, and                   *)
(* run_olmocr_conversion, lines 155-191: the argument vector.              *)
(***************************************************************************)
\* WORKSPACE_DIR's default, line 249
workspace_root == "/workspace"

\* the Language member behind each name the multiselect offers
language_options ==
    [selected \in {"English", "Portuguese", "Spanish"} |->
        CASE selected = "English" -> "ENGLISH"
          [] selected = "Portuguese" -> "PORTUGUESE"
          [] selected = "Spanish" -> "SPANISH"]

\* the selections of the multiselect, in the order selected
Selections ==
    {<< >>, <<"English">>, <<"Portuguese">>, <<"English", "Portuguese">>,
     <<"Portuguese", "English">>, <<"English", "Portuguese", "Spanish">>}

\* languages_to_keep = [language_options[l] for l in selected_langs]
languages_to_keep(selected_langs) ==
    [i \in 1..Len(selected_langs) |-> language_options[selected_langs[i]]]

\* the keyword arguments of lines 337-346; the URL passed the gate, so it
\* is not empty, and the sliders give a dimension of 800..2000 and 1..20
\* workers
Configs ==
    [vllm_base_url : {"http://vllm-server:30024"},
     target_dim : {1288},
     apply_filter : BOOLEAN,
     guided_decoding : BOOLEAN,
     workers : {4},
     languages_to_keep : {languages_to_keep(selected) : selected \in Selections}]

\* the widgets' defaults
DefaultConfig ==
    [vllm_base_url |-> "http://vllm-server:30024", target_dim |-> 1288,
     apply_filter |-> TRUE, guided_decoding |-> FALSE, workers |-> 4,
     languages_to_keep |-> <<"ENGLISH", "PORTUGUESE", "SPANISH">>]

NoConfig ==
    [vllm_base_url |-> "", target_dim |-> 0, apply_filter |-> FALSE,
     guided_decoding |-> FALSE, workers |-> 0, languages_to_keep |-> << >>]

\* what VLLM_API_KEY can be: unset, set to nothing, set to a key
Environs ==
    {{}, {<<"VLLM_API_KEY", "">>}, {<<"VLLM_API_KEY", "sk-1">>}}

\* os.environ.get(name): None is told from "" by found
Getenv(name) ==
    IF \E pair \in environ : pair[1] = name
      THEN [found |-> TRUE, value |-> (CHOOSE pair \in environ : pair[1] = name)[2]]
      ELSE [found |-> FALSE, value |-> ""]

\* os.path.join(workspace_dir, ...) down to a directory, and to a file
RECURSIVE DirString(_)
DirString(dir) ==
    IF dir = << >> THEN workspace_root
    ELSE DirString(SubSeq(dir, 1, Len(dir) - 1)) \o "/" \o dir[Len(dir)]

PathString(file) == DirString(file.dir) \o "/" \o file.leaf

\* ",".join(names)
RECURSIVE JoinNames(_)
JoinNames(names) ==
    IF names = << >> THEN ""
    ELSE IF Len(names) = 1 THEN names[1]
    ELSE names[1] \o "," \o JoinNames(Tail(names))

\* a builder that names the languages whatever the selection
LanguagesFlagAlways(languages) == <<"--languages_to_keep", JoinNames(languages)>>

\* lines 185-188
LanguagesFlag(languages) ==
    IF languages # << >>
      THEN <<"--languages_to_keep", JoinNames(languages)>>
      ELSE << >>

\* a builder that gives the worker count before the image dimension
OptionalFlagsWorkersFirst(config, vllm_api_key) ==
    (IF config.vllm_base_url # ""
       THEN <<"--vllm_base_url", config.vllm_base_url>> ELSE << >>)
    \o (IF vllm_api_key.found /\ vllm_api_key.value # ""
          THEN <<"--vllm_api_key", vllm_api_key.value>> ELSE << >>)
    \o (IF config.workers # 0
          THEN <<"--workers", ToString(config.workers)>> ELSE << >>)
    \o (IF config.apply_filter THEN <<"--apply_filter">> ELSE << >>)
    \o (IF config.guided_decoding THEN <<"--guided_decoding">> ELSE << >>)
    \o (IF config.target_dim # 0
          THEN <<"--target_longest_image_dim", ToString(config.target_dim)>>
          ELSE << >>)
    \o LanguagesFlag(config.languages_to_keep)

\* lines 167-188: each flag is added when its value is truthy
OptionalFlags(config, vllm_api_key) ==
    (IF config.vllm_base_url # ""
       THEN <<"--vllm_base_url", config.vllm_base_url>> ELSE << >>)
    \o (IF vllm_api_key.found /\ vllm_api_key.value # ""
          THEN <<"--vllm_api_key", vllm_api_key.value>> ELSE << >>)
    \o (IF config.target_dim # 0
          THEN <<"--target_longest_image_dim", ToString(config.target_dim)>>
          ELSE << >>)
    \o (IF config.apply_filter THEN <<"--apply_filter">> ELSE << >>)
    \o (IF config.guided_decoding THEN <<"--guided_decoding">> ELSE << >>)
    \o (IF config.workers # 0
          THEN <<"--workers", ToString(config.workers)>> ELSE << >>)
    \o LanguagesFlag(config.languages_to_keep)

\* a builder that numbers its builds
BuildCommandNumbered(workspace, paths, config) ==
    <<"python", "-m", "olmocr.pipeline", DirString(workspace), "--markdown", "--pdfs">>
    \o [i \in 1..Len(paths) |-> PathString(paths[i])]
    \o OptionalFlags(config, Getenv("VLLM_API_KEY"))
    \o (IF built.cmd = << >> THEN << >> ELSE <<"--resume">>)

\* lines 156-188
BuildCommand(workspace, paths, config) ==
    <<"python", "-m", "olmocr.pipeline", DirString(workspace), "--markdown", "--pdfs">>
    \o [i \in 1..Len(paths) |-> PathString(paths[i])]
    \o OptionalFlags(config, Getenv("VLLM_API_KEY"))

\* no build yet
NoBuild ==
    [selected_langs |-> << >>, config |-> NoConfig, paths |-> << >>,
     api_key |-> [found |-> FALSE, value |-> ""], cmd |-> << >>, repeats |-> FALSE]

\* one user, two requests one after the other, the full inputs
OneUser ==
    [users |-> {"s1"},
     uploads |-> UploadChoices,
     ids |-> {"0a1b2c3d"},
     outputs |-> ProcessOutputs \ {<<File(markdown_dir, "b.md"), "x">>},
     printed |-> Lines,
     codes |-> ExitCodes,
     writes |-> MaxWrites,
     lines |-> MaxLines,
     clock |-> Times,
     jobs |-> 2,
     remove_fails |-> FALSE,
     configs |-> {DefaultConfig}]

\* every user on the one workspace, small inputs: one document a request,
\* three markdown files to write, two writes and one line a run
AllUsers ==
    [users |-> Sessions,
     uploads |-> {d \in UploadChoices : Len(d) = 1 /\ d[1].name = "a.pdf"},
     ids |-> SessionIds,
     outputs |-> {out \in ProcessOutputs :
                     /\ IsMarkdown(out[1])
                     /\ IsPrefix(markdown_dir, out[1].dir)
                     /\ out[2] = "x"},
     printed |-> Lines,
     codes |-> {0, 137},
     writes |-> 2,
     lines |-> 1,
     clock |-> {0},
     jobs |-> MaxJobs,
     remove_fails |-> FALSE,
     configs |-> {DefaultConfig}]

\* one user and one request whose process writes no file and prints a log
\* of up to MaxLogLines lines
OneRun ==
    [users |-> {"s1"},
     uploads |-> {d \in UploadChoices : Len(d) = 1 /\ d[1].name = "a.pdf"},
     ids |-> {"0a1b2c3d"},
     outputs |-> {},
     printed |-> LogLines,
     codes |-> {0, 137},
     writes |-> 0,
     lines |-> MaxLogLines,
     clock |-> {0},
     jobs |-> 1,
     remove_fails |-> FALSE,
     configs |-> {DefaultConfig}]

\* one user and one request with the inputs of OneUser, on a file system
\* where the removal of a staged file may fail
OneRequest == [OneUser EXCEPT !.jobs = 1, !.remove_fails = TRUE]

\* who uses the workspace, and the inputs and bounds of the run
Scope ==
    CASE scope = "one user" -> OneUser
      [] scope = "all users" -> AllUsers
      [] scope = "one run" -> OneRun
      [] scope = "one request" -> OneRequest

Fresh ==
    /\ fs = [dirs |-> {workspace_dir}, files |-> << >>]
    /\ now = 0
    /\ jobs = 0
    /\ pc = [s \in Sessions |-> "idle"]
    /\ job = [s \in Sessions |-> NoJob]
    /\ uploaded_files = [s \in Sessions |-> << >>]
    /\ probe = [s \in Sessions |-> [outcome |-> "none", raised |-> FALSE, value |-> FALSE]]
    /\ pdf_paths = [s \in Sessions |-> << >>]
    /\ cleanup_session_files = [s \in Sessions |-> FALSE]
    /\ process = [j \in Jobs |-> NoProcess]
    /\ pipe = [j \in Jobs |-> << >>]
    /\ log_lines = [s \in Sessions |-> << >>]
    /\ error_count = [s \in Sessions |-> 0]
    /\ connection_errors = [s \in Sessions |-> 0]
    /\ log_text = [s \in Sessions |-> << >>]
    /\ return_code = [s \in Sessions |-> << >>]
    /\ markdown_files = [s \in Sessions |-> {}]
    /\ download = [s \in Sessions |-> NoDownload]
    /\ messages = [s \in Sessions |-> {}]
    /\ status_text = [s \in Sessions |-> ""]
    /\ environ = {}
    /\ kwargs = [s \in Sessions |-> NoConfig]
    /\ cmd = [s \in Sessions |-> << >>]
    /\ built = NoBuild

Init == scope = "one user" /\ Fresh

InitRequest == scope = "one request" /\ Fresh

InitShared == scope = "all users" /\ Fresh

InitDrain == scope = "one run" /\ Fresh

(***************************************************************************)
(* main, lines 322-325: the button and the health gate.                    *)
(***************************************************************************)
\* a gate that lets the request through whatever the probe says
GateOpen(result) == TRUE

GatePasses(result) == result.value

StartConversion(s) ==
    /\ pc[s] \in {"idle", "done"}
    /\ jobs < Scope.jobs
    /\ \E docs \in Scope.uploads, outcome \in ProbeOutcomes :
         LET result == check_vllm_server_status(outcome)
         IN  /\ uploaded_files' = [uploaded_files EXCEPT ![s] =
                                       IF GatePasses(result) THEN docs ELSE << >>]
             /\ probe' = [probe EXCEPT ![s] = [outcome |-> outcome,
                                               raised |-> result.raised,
                                               value |-> result.value]]
             /\ IF GatePasses(result)
                  THEN /\ pc' = [pc EXCEPT ![s] = "prepare"]
                       /\ messages' = [messages EXCEPT ![s] = {}]
                       /\ status_text' = [status_text EXCEPT ![s] = "Preparing files..."]
                  ELSE /\ pc' = [pc EXCEPT ![s] = "done"]
                       /\ messages' = [messages EXCEPT ![s] =
                            {Msg("error", "vLLM server is not accessible", 0)}]
                       /\ status_text' = [status_text EXCEPT ![s] = ""]
    /\ jobs' = jobs + 1
    /\ job' = [job EXCEPT ![s] = jobs + 1]
    /\ pdf_paths' = [pdf_paths EXCEPT ![s] = << >>]
    /\ cleanup_session_files' = [cleanup_session_files EXCEPT ![s] = FALSE]
    /\ log_lines' = [log_lines EXCEPT ![s] = << >>]
    /\ error_count' = [error_count EXCEPT ![s] = 0]
    /\ connection_errors' = [connection_errors EXCEPT ![s] = 0]
    /\ log_text' = [log_text EXCEPT ![s] = << >>]
    /\ return_code' = [return_code EXCEPT ![s] = << >>]
    /\ markdown_files' = [markdown_files EXCEPT ![s] = {}]
    /\ download' = [download EXCEPT ![s] = NoDownload]
    /\ UNCHANGED <<scope, fs, now, process_vars, build_vars>>

(***************************************************************************)
(* main, lines 337-346 with run_olmocr_conversion: ensure the layout,      *)
(* clear, stage.  A write may fail (disk full, permission): the exception  *)
(* leaves run_olmocr_conversion before cleanup_session_files is returned,  *)
(* main reports it (line 585) and its finally finds None.                  *)
(***************************************************************************)
Prepare(s) ==
    /\ pc[s] = "prepare"
    /\ \E ts \in {t \in Scope.clock : t >= now}, sid \in Scope.ids, written \in 0..Len(uploaded_files[s]) :
         LET docs == uploaded_files[s]
             cleared == ClearPriorState(get_workspace_dirs(fs))
             paths == StagedPaths(docs, ts, sid, Len(docs))
         IN  /\ now' = ts
             /\ fs' = StageInputs(cleared, docs, ts, sid, job[s], written)
             /\ IF written = Len(docs)
                  THEN /\ pdf_paths' = [pdf_paths EXCEPT ![s] = paths]
                       /\ \E config \in Scope.configs :
                            /\ kwargs' = [kwargs EXCEPT ![s] = config]
                            /\ cmd' = [cmd EXCEPT ![s] =
                                          BuildCommand(workspace_dir, paths, config)]
                       /\ cleanup_session_files' =
                              [cleanup_session_files EXCEPT ![s] = TRUE]
                       /\ pc' = [pc EXCEPT ![s] = "spawn"]
                       /\ status_text' = [status_text EXCEPT ![s] =
                                             "Running olmOCR conversion..."]
                       /\ UNCHANGED messages
                  ELSE /\ messages' = [messages EXCEPT ![s] =
                              @ \cup {Msg("error", "An error occurred during conversion", 0)}]
                       /\ pc' = [pc EXCEPT ![s] = "done"]
                       /\ UNCHANGED <<pdf_paths, cleanup_session_files, status_text,
                                      kwargs, cmd>>
    /\ UNCHANGED <<scope, jobs, job, uploaded_files, probe, process_vars, log_vars,
                   return_code, markdown_files, download, environ, built>>

(***************************************************************************)
(* main, line 355: subprocess.Popen.  It raises when the interpreter       *)
(* cannot be launched; the handler at 584 reports it and finally runs.     *)
(***************************************************************************)
\* a handler that goes on to the loop with no process
DrainAfterPopenRaised == "drain"

\* lines 584-585: the handler shows the error and main goes on to its finally
AfterPopenRaised == "finally"

Spawn(s) ==
    /\ pc[s] = "spawn"
    /\ \/ /\ process' = [process EXCEPT ![job[s]] =
                            [state |-> "running", stdout_open |-> TRUE, returncode |-> 0,
                             writes |-> 0, emitted |-> << >>]]
          /\ pc' = [pc EXCEPT ![s] = "drain"]
          /\ UNCHANGED messages
       \/ /\ messages' = [messages EXCEPT ![s] =
                 @ \cup {Msg("error", "An error occurred during conversion", 0)}]
          /\ pc' = [pc EXCEPT ![s] = AfterPopenRaised]
          /\ UNCHANGED process
    /\ UNCHANGED <<scope, fs, now, jobs, job, uploaded_files, probe, pdf_paths,
                   cleanup_session_files, pipe, log_vars, return_code,
                   markdown_files, download, status_text, build_vars>>

(***************************************************************************)
(* The external process: it prints lines, writes its bookkeeping and its   *)
(* markdown, may close its output early, and exits with any status.        *)
(***************************************************************************)
Running(j) == process[j].state = "running"

ProcessPrint(j) ==
    /\ Running(j)
    /\ process[j].stdout_open
    /\ Len(process[j].emitted) < Scope.lines
    /\ \E line \in Scope.printed :
         /\ pipe' = [pipe EXCEPT ![j] = Append(@, line)]
         /\ process' = [process EXCEPT ![j].emitted = Append(@, line)]
    /\ UNCHANGED <<scope, fs, now, jobs, pc, job, request_vars, build_vars>>

\* the work index and the results directory of the pipeline
ProcessBookkeeping(j) ==
    /\ Running(j)
    /\ ~FileExists(fs, work_index_file)
    /\ fs' = WriteFile(MakeDirs(fs, results_dir), work_index_file,
                       Content("index", NoJob))
    /\ UNCHANGED <<scope, now, jobs, pc, job, request_vars, process_vars, build_vars>>

\* os.makedirs of the markdown directory, with nothing in it yet
ProcessMakeMarkdownDir(j) ==
    /\ Running(j)
    /\ ~DirExists(fs, markdown_dir)
    /\ fs' = MakeDirs(fs, markdown_dir)
    /\ UNCHANGED <<scope, now, jobs, pc, job, request_vars, process_vars, build_vars>>

ProcessWrite(j) ==
    /\ Running(j)
    /\ process[j].writes < Scope.writes
    /\ \E out \in Scope.outputs :
         fs' = WriteFile(MakeDirs(fs, out[1].dir), out[1], Content(out[2], j))
    /\ process' = [process EXCEPT ![j].writes = @ + 1]
    /\ UNCHANGED <<scope, now, jobs, pc, job, request_vars, pipe, build_vars>>

\* the process closes its standard output and goes on
ProcessCloseStdout(j) ==
    /\ Running(j)
    /\ process[j].stdout_open
    /\ process' = [process EXCEPT ![j].stdout_open = FALSE]
    /\ UNCHANGED <<scope, fs, now, jobs, pc, job, request_vars, pipe, build_vars>>

ProcessExit(j) ==
    /\ Running(j)
    /\ \E code \in Scope.codes :
         process' = [process EXCEPT ![j] =
                        [@ EXCEPT !.state = "exited", !.stdout_open = FALSE,
                                  !.returncode = code]]
    /\ UNCHANGED <<scope, fs, now, jobs, pc, job, request_vars, pipe, build_vars>>

(***************************************************************************)
(* main, lines 366-390: the drain loop.  readline blocks while the pipe is *)
(* empty and open; at end of file it returns "".                           *)
(***************************************************************************)
\* readline returns "": nothing is buffered and the write end is closed
AtEndOfFile(j) == pipe[j] = << >> /\ ~process[j].stdout_open

\* process.poll() is not None
Polled(j) == process[j].state = "exited"

\* a loop that leaves as soon as the process has exited
BreaksOnExit(eof, polled) == polled

\* a loop that leaves at the end of the output, exited or not
BreaksAtEndOfFile(eof, polled) == eof

\* output == "" and process.poll() is not None
Breaks(eof, polled) == eof /\ polled

\* log_lines.append(line)
Accumulate(lines, line) == Append(lines, line)

ReadLine(s) ==
    /\ pc[s] = "drain"
    /\ pipe[job[s]] # << >>
    /\ ~Breaks(FALSE, Polled(job[s]))
    /\ LET line == StripOf[Head(pipe[job[s]])]
           lines == Accumulate(log_lines[s], line)
       IN  /\ log_lines' = [log_lines EXCEPT ![s] = lines]
           /\ error_count' = [error_count EXCEPT ![s] =
                  IF line \in CountedAsError THEN @ + 1 ELSE @]
           /\ connection_errors' = [connection_errors EXCEPT ![s] =
                  IF line \in CountedAsConnectionError THEN @ + 1 ELSE @]
           /\ log_text' = [log_text EXCEPT ![s] = FormattedLog(lines)]
    /\ pipe' = [pipe EXCEPT ![job[s]] = Tail(@)]
    /\ UNCHANGED <<scope, fs, now, jobs, pc, job, uploaded_files, probe, pdf_paths,
                   cleanup_session_files, process, return_code, markdown_files,
                   download, messages, status_text, build_vars>>

\* readline returns "" while poll() is None: neither branch is taken and
\* the loop comes round again
EmptyRead(s) ==
    /\ pc[s] = "drain"
    /\ AtEndOfFile(job[s])
    /\ ~Breaks(TRUE, Polled(job[s]))
    /\ UNCHANGED vars

\* the break of line 369, then return_code = process.poll() at line 390
EndOfOutput(s) ==
    /\ pc[s] = "drain"
    /\ pipe[job[s]] # << >> \/ AtEndOfFile(job[s])
    /\ Breaks(AtEndOfFile(job[s]), Polled(job[s]))
    /\ return_code' = [return_code EXCEPT ![s] = <<process[job[s]].returncode>>]
    /\ process' = [process EXCEPT ![job[s]] = Reaped]
    /\ pc' = [pc EXCEPT ![s] = "evaluate"]
    /\ status_text' = [status_text EXCEPT ![s] = "Processing results..."]
    /\ UNCHANGED <<scope, fs, now, jobs, job, uploaded_files, probe, pdf_paths,
                   cleanup_session_files, pipe, log_vars, markdown_files,
                   download, messages, build_vars>>

(***************************************************************************)
(* main, lines 395-413 and 558-582: the exit status decides; on 0 the      *)
(* markdown directory is walked, and the whole workspace when it is not    *)
(* there.                                                                  *)
(***************************************************************************)
Collect(f, d) == {p \in Walk(f, d) : IsMarkdown(p)}

\* a test of the exit status that takes a signal's negative status for success
SucceededUnlessPositive(code) == code <= 0

Succeeded(code) == code = 0

\* a test of the collected list that is always true
AlwaysArtifacts(found) == TRUE

\* if markdown_files:
HasArtifacts(found) == found # {}

\* a failure after which the process is started again
RetryAfterFailure == "spawn"

\* lines 579-582: the failure is shown and main goes on to its finally
AfterFailure == "finally"

\* os.path.relpath(path, start) of a path below start, as strings
relpath(path, start) == SubSeq(path, Len(start) + 2, Len(path))

\* a search that looks at the files of the workspace root only
TopLevelMarkdown(f) == {p \in DOMAIN f.files : p.dir = workspace_dir /\ IsMarkdown(p)}

\* lines 564-568: os.walk(workspace_dir), keeping the names that end in .md
all_md_files(f) == {p \in Walk(f, workspace_dir) : EndsWith(p.leaf, ".md")}

\* lines 572-574: st.write of each file's path relative to the workspace
WrittenPaths(files) ==
    {Msg("write", relpath(PathString(md_file), workspace_root), 0) : md_file \in files}

Evaluate(s) ==
    /\ pc[s] = "evaluate"
    /\ LET code == return_code[s][1]
           found == Collect(fs, markdown_dir)
           stray == all_md_files(fs)
       IN  IF ~Succeeded(code)
             THEN /\ messages' = [messages EXCEPT ![s] =
                         @ \cup {Msg("error", "Conversion failed with return code", code)}]
                  /\ status_text' = [status_text EXCEPT ![s] = "Conversion failed"]
                  /\ pc' = [pc EXCEPT ![s] = AfterFailure]
                  /\ UNCHANGED markdown_files
             ELSE IF DirExists(fs, markdown_dir)
               THEN /\ markdown_files' = [markdown_files EXCEPT ![s] = found]
                    /\ status_text' = [status_text EXCEPT ![s] =
                                          "Conversion completed successfully!"]
                    /\ IF HasArtifacts(found)
                         THEN /\ messages' = [messages EXCEPT ![s] =
                                     @ \cup {Msg("success", "Successfully converted",
                                                 Cardinality(found))}]
                              /\ pc' = [pc EXCEPT ![s] = "package"]
                         ELSE /\ messages' = [messages EXCEPT ![s] =
                                     @ \cup {Msg("warning",
                                                 "Conversion completed but no markdown files were generated", 0)}]
                              /\ pc' = [pc EXCEPT ![s] = "finally"]
               ELSE /\ messages' = [messages EXCEPT ![s] =
                           @ \cup {Msg("warning",
                                       "Conversion completed but no markdown directory was created", 0)}
                             \cup (IF stray # {}
                                     THEN {Msg("warning", "Found markdown files in unexpected locations",
                                               Cardinality(stray))}
                                          \cup WrittenPaths(stray)
                                     ELSE {Msg("error", "No markdown files found anywhere in the workspace", 0)})]
                    /\ pc' = [pc EXCEPT ![s] = "finally"]
                    /\ UNCHANGED <<markdown_files, status_text>>
    /\ UNCHANGED <<scope, fs, now, jobs, job, uploaded_files, probe, pdf_paths,
                   cleanup_session_files, process_vars, log_vars, return_code,
                   download, build_vars>>

(***************************************************************************)
(* main, lines 418-439 and 470-484: one artifact is read, passed through   *)
(* latex_replace and offered under the first upload's name; several are    *)
(* written to markdown_files.zip in the workspace.  A file another request *)
(* removed meanwhile raises, and the handler at 584 reports it.            *)
(***************************************************************************)
\* zipf.write(md_file, rel_path) for every artifact
ZipEntries(f, files) ==
    {[name |-> RelPath(p, markdown_dir), data |-> f.files[p].data] : p \in files}

\* the download's name: the artifact's own leaf name
ArtifactLeafName(docs, md_file) == md_file.leaf

\* f"{os.path.splitext(uploaded_files[0].name)[0]}.md"
DownloadName(docs, md_file) == SplitExtStem(docs[1].name) \o ".md"

Raise(s) ==
    /\ messages' = [messages EXCEPT ![s] =
           @ \cup {Msg("error", "An error occurred during conversion", 0)}]
    /\ pc' = [pc EXCEPT ![s] = "finally"]

\* lines 366-389 inside the try block: readline raises on output that does
\* not decode, or showing the line raises after it was appended; the handler
\* at 584 shows the error and finally runs.  Nothing stops or waits for the
\* process.
DrainRaises(s) ==
    /\ pc[s] = "drain"
    /\ \/ UNCHANGED <<pipe, log_vars>>
       \/ /\ pipe[job[s]] # << >>
          /\ LET line == StripOf[Head(pipe[job[s]])]
             IN  /\ log_lines' = [log_lines EXCEPT ![s] = Accumulate(@, line)]
                 /\ error_count' = [error_count EXCEPT ![s] =
                        IF line \in CountedAsError THEN @ + 1 ELSE @]
                 /\ connection_errors' = [connection_errors EXCEPT ![s] =
                        IF line \in CountedAsConnectionError THEN @ + 1 ELSE @]
          /\ pipe' = [pipe EXCEPT ![job[s]] = Tail(@)]
          /\ UNCHANGED log_text
    /\ Raise(s)
    /\ UNCHANGED <<scope, fs, now, jobs, job, uploaded_files, probe, pdf_paths,
                   cleanup_session_files, process, return_code, markdown_files,
                   download, status_text, build_vars>>

Package(s) ==
    /\ pc[s] = "package"
    /\ LET present == {p \in markdown_files[s] : FileExists(fs, p)}
       IN  IF Cardinality(markdown_files[s]) = 1
             THEN LET md_file == CHOOSE p \in markdown_files[s] : TRUE
                  IN  /\ IF present = markdown_files[s]
                           THEN /\ download' = [download EXCEPT ![s] =
                                      [kind |-> "markdown",
                                       data |-> latex_replace(fs.files[md_file].data),
                                       file_name |-> DownloadName(uploaded_files[s], md_file),
                                       entries |-> {}]]
                                /\ pc' = [pc EXCEPT ![s] = "finally"]
                                /\ UNCHANGED messages
                           ELSE Raise(s) /\ UNCHANGED download
                      /\ UNCHANGED fs
             ELSE IF present = markdown_files[s]
               THEN /\ fs' = WriteFile(fs, zip_path,
                                       Archive(ZipEntries(fs, markdown_files[s]), NoJob))
                    /\ pc' = [pc EXCEPT ![s] = "deliver"]
                    /\ UNCHANGED <<messages, download>>
               ELSE /\ \E done \in SUBSET present :
                         fs' = WriteFile(fs, zip_path, Archive(ZipEntries(fs, done), NoJob))
                    /\ Raise(s)
                    /\ UNCHANGED download
    /\ UNCHANGED <<scope, now, jobs, job, uploaded_files, probe, pdf_paths,
                   cleanup_session_files, process_vars, log_vars, return_code,
                   markdown_files, status_text, build_vars>>

(***************************************************************************)
(* main, lines 483-499: the archive is read back from the workspace and    *)
(* offered under a name made of the time of day.                           *)
(***************************************************************************)
Deliver(s) ==
    /\ pc[s] = "deliver"
    /\ \E t \in {u \in Scope.clock : u >= now} :
         /\ now' = t
         /\ download' = [download EXCEPT ![s] =
                [kind |-> "zip",
                 data |-> "",
                 file_name |-> "olmocr_converted_" \o ToString(t) \o ".zip",
                 entries |-> fs.files[zip_path].entries]]
    /\ pc' = [pc EXCEPT ![s] = "finally"]
    /\ UNCHANGED <<scope, fs, jobs, job, uploaded_files, probe, pdf_paths,
                   cleanup_session_files, process_vars, log_vars, return_code,
                   markdown_files, messages, status_text, build_vars>>

(***************************************************************************)
(* main, lines 586-592 with cleanup_session_files, lines 194-204.          *)
(***************************************************************************)
RECURSIVE RemoveStaged(_, _, _)
RemoveStaged(f, paths, n) ==
    IF n = 0 THEN f
    ELSE LET g == RemoveStaged(f, paths, n - 1)
         IN  IF FileExists(g, paths[n]) THEN Remove(g, paths[n]) ELSE g

\* a cleanup whose exception leaves main
CleanupFailureEscapes(shown) == shown \cup {Msg("error", "Uncaught exception", 0)}

\* except Exception as e: st.warning(...), line 204
CleanupFailureWarned(shown) ==
    shown \cup {Msg("warning", "Could not clean up session files", 0)}

\* a finally block that calls nothing
NeverCalled(cleanup) == FALSE

\* line 587: if cleanup_session_files is not None
IsNotNone(cleanup) == cleanup

\* os.remove may raise at any staged file that is there (permission, a file
\* in use): the files before it are gone, it and the files after it stay
Finally(s) ==
    /\ pc[s] = "finally"
    /\ \/ /\ fs' = IF IsNotNone(cleanup_session_files[s])
                      THEN RemoveStaged(fs, pdf_paths[s], Len(pdf_paths[s]))
                      ELSE fs
          /\ UNCHANGED messages
       \/ /\ IsNotNone(cleanup_session_files[s])
          /\ Scope.remove_fails
          /\ \E n \in 1..Len(pdf_paths[s]) :
               LET g == RemoveStaged(fs, pdf_paths[s], n - 1)
               IN  /\ FileExists(g, pdf_paths[s][n])
                   /\ fs' = g
          /\ messages' = [messages EXCEPT ![s] = CleanupFailureWarned(@)]
    /\ pc' = [pc EXCEPT ![s] = "done"]
    /\ uploaded_files' = [uploaded_files EXCEPT ![s] = << >>]
    /\ pdf_paths' = [pdf_paths EXCEPT ![s] = << >>]
    /\ cleanup_session_files' = [cleanup_session_files EXCEPT ![s] = FALSE]
    /\ log_lines' = [log_lines EXCEPT ![s] = << >>]
    /\ error_count' = [error_count EXCEPT ![s] = 0]
    /\ connection_errors' = [connection_errors EXCEPT ![s] = 0]
    /\ log_text' = [log_text EXCEPT ![s] = << >>]
    /\ return_code' = [return_code EXCEPT ![s] = << >>]
    /\ markdown_files' = [markdown_files EXCEPT ![s] = {}]
    /\ download' = [download EXCEPT ![s] = NoDownload]
    /\ kwargs' = [kwargs EXCEPT ![s] = NoConfig]
    /\ cmd' = [cmd EXCEPT ![s] = << >>]
    /\ UNCHANGED <<scope, now, jobs, job, probe, status_text, process_vars,
                   environ, built>>

Next ==
    \/ \E s \in Scope.users : StartConversion(s)
    \/ \E s \in Scope.users : Prepare(s)
    \/ \E s \in Scope.users : Spawn(s)
    \/ \E j \in Jobs : ProcessPrint(j)
    \/ \E j \in Jobs : ProcessBookkeeping(j)
    \/ \E j \in Jobs : ProcessMakeMarkdownDir(j)
    \/ \E j \in Jobs : ProcessWrite(j)
    \/ \E j \in Jobs : ProcessExit(j)
    \/ \E s \in Scope.users : ReadLine(s)
    \/ \E s \in Scope.users : EndOfOutput(s)
    \/ \E s \in Scope.users : Evaluate(s)
    \/ \E s \in Scope.users : Package(s)
    \/ \E s \in Scope.users : Deliver(s)
    \/ \E s \in Scope.users : Finally(s)

Spec == Init /\ [][Next]_vars

SpecShared == InitShared /\ [][Next]_vars

SpecRequest == InitRequest /\ [][Next]_vars

\* the steps of a request, with an exception inside the loop
NextAbort ==
    \/ Next
    \/ \E s \in Scope.users : DrainRaises(s)

SpecAbort == InitRequest /\ [][NextAbort]_vars

\* the steps of a request whose process writes no file
NextDrain ==
    \/ \E s \in Scope.users : StartConversion(s)
    \/ \E s \in Scope.users : Prepare(s)
    \/ \E s \in Scope.users : Spawn(s)
    \/ \E j \in Jobs : ProcessPrint(j)
    \/ \E j \in Jobs : ProcessCloseStdout(j)
    \/ \E j \in Jobs : ProcessExit(j)
    \/ \E s \in Scope.users : ReadLine(s)
    \/ \E s \in Scope.users : EmptyRead(s)
    \/ \E s \in Scope.users : EndOfOutput(s)
    \/ \E s \in Scope.users : Evaluate(s)
    \/ \E s \in Scope.users : Finally(s)

SpecDrain == InitDrain /\ [][NextDrain]_vars

\* the script's thread is scheduled: an iteration of the loop that can
\* read a line or leave does so
SpecDrainFair ==
    /\ InitDrain
    /\ [][NextDrain]_vars
    /\ \A s \in Sessions : WF_vars(ReadLine(s)) /\ WF_vars(EndOfOutput(s))

(***************************************************************************)
(* The command builder on its own: lines 155-191 applied to every setting  *)
(* of the sidebar and every list of staged paths, on a server whose        *)
(* environment is set anew between builds.                                 *)
(***************************************************************************)
\* the lists of staged paths a request can hand to the builder
BuildPaths ==
    {StagedPaths(docs, ts, sid, Len(docs)) :
        docs \in UploadChoices, ts \in {0}, sid \in {"0a1b2c3d"}}

InitBuild == scope = "one build" /\ Fresh

\* the server is started with another environment
SetEnviron ==
    /\ \E env \in Environs \ {environ} : environ' = env
    /\ UNCHANGED <<scope, fs, now, jobs, pc, job, request_vars, process_vars,
                   kwargs, cmd, built>>

Build ==
    /\ \E selected \in Selections, paths \in BuildPaths,
          apply_filter \in BOOLEAN, guided_decoding \in BOOLEAN :
         LET config == [DefaultConfig EXCEPT
                            !.apply_filter = apply_filter,
                            !.guided_decoding = guided_decoding,
                            !.languages_to_keep = languages_to_keep(selected)]
         IN  built' = [selected_langs |-> selected,
                       config |-> config,
                       paths |-> paths,
                       api_key |-> Getenv("VLLM_API_KEY"),
                       cmd |-> BuildCommand(workspace_dir, paths, config),
                       repeats |-> /\ built.cmd # << >>
                                   /\ built.config = config
                                   /\ built.paths = paths]
    /\ UNCHANGED <<scope, fs, now, jobs, pc, job, request_vars, process_vars,
                   environ, kwargs, cmd>>

NextBuild == Build \/ SetEnviron

SpecBuild == InitBuild /\ [][NextBuild]_vars

(***************************************************************************)
(* Properties.                                                             *)
(***************************************************************************)
Requested(s) == job[s] # NoJob
PreconditionFailure == Msg("error", "vLLM server is not accessible", 0)
RuntimeFailure(code) == Msg("error", "Conversion failed with return code", code)
StagedBy(f, jb) == {p \in Walk(f, pdf_dir) : f.files[p].job = jb}

\* C1: a request whose health probe returned false ends at once with the
\* precondition failure: the step that takes it changes neither the workspace
\* nor any process, nothing of it is ever staged or spawned, and a process
\* exists for a request only if its probe returned true.
C1_HealthGate ==
    /\ [](\A s \in Sessions :
            /\ (Requested(s) /\ ~probe[s].value) =>
                  /\ pc[s] = "done"
                  /\ messages[s] = {PreconditionFailure}
                  /\ process[job[s]] = NoProcess
                  /\ StagedBy(fs, job[s]) = {}
            /\ (Requested(s) /\ process[job[s]] # NoProcess) => probe[s].value)
    /\ [][\A s \in Sessions :
            (job'[s] # job[s] /\ ~probe'[s].value) =>
                (fs' = fs /\ process' = process /\ pipe' = pipe)]_vars

\* C1 witness: a second request is refused while the workspace still holds
\* the markdown of the first.
C1_Witness ==
    \E s \in Sessions :
        /\ job[s] = 2
        /\ ~probe[s].value
        /\ pc[s] = "done"
        /\ Collect(fs, markdown_dir) # {}

\* C2: whatever the readiness request does, the probe returns a boolean, does
\* not raise, and returns true exactly when the answer's status is 200.
C2_ProbeTotal ==
    \A s \in Sessions :
        Requested(s) =>
            /\ probe[s].outcome \in ProbeOutcomes
            /\ ~probe[s].raised
            /\ probe[s].value \in BOOLEAN
            /\ probe[s].value <=> (probe[s].outcome = "status_200")

\* C2 witness: the request timed out and the probe answered false.
C2_Witness ==
    \E s \in Sessions :
        /\ Requested(s)
        /\ probe[s].outcome = "timeout"
        /\ probe[s].value = FALSE

\* C3: once the loop has read a nonzero exit status c, the request shows the
\* failure with exactly c and nothing else, no file is collected and nothing
\* is offered for download; only status 0 leads to collection.
C3_NonzeroExitIsRuntimeFailure ==
    \A s \in Sessions :
        /\ (return_code[s] # << >> /\ return_code[s][1] # 0) =>
              /\ pc[s] \in {"evaluate", "finally"}
              /\ markdown_files[s] = {}
              /\ download[s] = NoDownload
              /\ pc[s] = "finally" =>
                    /\ messages[s] = {RuntimeFailure(return_code[s][1])}
                    /\ status_text[s] = "Conversion failed"
        /\ (pc[s] \in {"package", "deliver"} \/ markdown_files[s] # {}
              \/ download[s] # NoDownload) => return_code[s] = <<0>>

\* C3 witness: the process left markdown behind and was then killed by a
\* signal; the request has reported the failure.
C3_Witness ==
    \E s \in Sessions :
        /\ pc[s] = "finally"
        /\ return_code[s] = <<-9>>
        /\ Collect(fs, markdown_dir) # {}

\* C4: after staging, any two uploaded documents with one original filename
\* are staged at two distinct paths, and each staged file holds its own
\* document's bytes.
C4_SameNameStagedApart ==
    \A s \in Sessions :
        pc[s] = "spawn" =>
            \A i, k \in 1..Len(uploaded_files[s]) :
                (i # k /\ uploaded_files[s][i].name = uploaded_files[s][k].name) =>
                    /\ pdf_paths[s][i] # pdf_paths[s][k]
                    /\ FileExists(fs, pdf_paths[s][i])
                    /\ fs.files[pdf_paths[s][i]].data = uploaded_files[s][i].data

\* C5: when a request's process is spawned, the work index, the results
\* directory and the markdown directory are absent and the inputs directory
\* holds exactly the files this request staged.
SpawnedNow(s) ==
    /\ pc[s] = "spawn"
    /\ pc'[s] = "drain"

FreshForJob(s) ==
    /\ ~FileExists(fs, work_index_file)
    /\ ~DirExists(fs, results_dir)
    /\ ~DirExists(fs, markdown_dir)
    /\ Walk(fs, pdf_dir) = {pdf_paths[s][i] : i \in 1..Len(pdf_paths[s])}
    /\ \A p \in Walk(fs, pdf_dir) : fs.files[p].job = job[s]

C5_NoEarlierStateAtSpawn ==
    [][\A s \in Sessions : SpawnedNow(s) => FreshForJob(s)]_vars

\* C5, second part: every artifact a request collects was written by the
\* process of that request.
C5_CollectedAreOwn ==
    \A s \in Sessions :
        \A p \in markdown_files[s] :
            FileExists(fs, p) => fs.files[p].job = job[s]

\* C7: at most one process runs at a time, and no request clears or stages
\* while a process runs.
C7_ExclusiveWorkspace ==
    [][/\ Cardinality({j \in Jobs : process'[j].state = "running"}) <= 1
       /\ \A s \in Sessions :
            (pc[s] = "prepare" /\ pc'[s] # "prepare") =>
                \A j \in Jobs : process[j].state # "running"]_vars

\* C6 as stated: on a workspace whose work index is absent and whose inputs,
\* results and markdown areas hold nothing, clearing leaves every file and
\* directory as it was, and clearing twice is clearing once.
AreasEmpty(f) ==
    /\ ~FileExists(f, work_index_file)
    /\ Walk(f, pdf_dir) = {}
    /\ Walk(f, results_dir) = {}
    /\ Walk(f, markdown_dir) = {}

AreasAbsent(f) ==
    /\ AreasEmpty(f)
    /\ ~DirExists(f, results_dir)
    /\ ~DirExists(f, markdown_dir)

Clearing(s) == pc[s] = "prepare"

C6_ClearEmptyIsNoOp ==
    \A s \in Sessions :
        Clearing(s) =>
            LET f == get_workspace_dirs(fs)
            IN  /\ AreasEmpty(f) => ClearPriorState(f) = f
                /\ ClearPriorState(ClearPriorState(f)) = ClearPriorState(f)

\* C6 amended: on such a workspace clearing creates and removes no file and
\* touches no directory but the results and the markdown directory, which it
\* removes when they exist; with both absent it changes nothing; clearing
\* twice is clearing once.
C6_ClearEmptyRemovesOnlyEmptyDirs ==
    \A s \in Sessions :
        Clearing(s) =>
            LET f == get_workspace_dirs(fs)
                g == ClearPriorState(f)
            IN  /\ AreasEmpty(f) =>
                      /\ g.files = f.files
                      /\ g.dirs = {d \in f.dirs : ~IsPrefix(results_dir, d)
                                                  /\ ~IsPrefix(markdown_dir, d)}
                /\ AreasAbsent(f) => g = f
                /\ ClearPriorState(g) = g

\* C6 witness: a request is about to clear a workspace whose markdown
\* directory exists and is empty, and whose other areas hold nothing.
C6_Witness ==
    \E s \in Sessions :
        /\ Clearing(s)
        /\ AreasEmpty(get_workspace_dirs(fs))
        /\ DirExists(fs, markdown_dir)

\* C8 as stated: with exit status 0 and exactly one markdown file below the
\* markdown directory, the walk returns that one file and the download holds
\* the file's bytes as they are on disk, under the file's own name.
Collects(s) == pc[s] = "evaluate" /\ pc'[s] # "evaluate" /\ return_code[s] = <<0>>
OffersSingle(s) == pc[s] = "package" /\ download'[s].kind = "markdown"
TheArtifact(s) == CHOOSE p \in markdown_files[s] : TRUE

C8_SingleArtifactUnchanged ==
    [][\A s \in Sessions :
          /\ (Collects(s) /\ Cardinality(Collect(fs, markdown_dir)) = 1) =>
                (markdown_files'[s] = Collect(fs, markdown_dir) /\ pc'[s] = "package")
          /\ OffersSingle(s) =>
                /\ Cardinality(markdown_files[s]) = 1
                /\ download'[s].data = fs.files[TheArtifact(s)].data
                /\ download'[s].file_name = TheArtifact(s).leaf]_vars

\* C8 amended: the walk returns that one file, and the download holds the
\* file's text after latex_replace (equal to the file when the text has no
\* backslash), under the first uploaded document's name with its extension
\* replaced by .md.
C8_SingleArtifactLatexReplaced ==
    [][\A s \in Sessions :
          /\ (Collects(s) /\ Cardinality(Collect(fs, markdown_dir)) = 1) =>
                (markdown_files'[s] = Collect(fs, markdown_dir) /\ pc'[s] = "package")
          /\ OffersSingle(s) =>
                /\ Cardinality(markdown_files[s]) = 1
                /\ download'[s].data = latex_replace(fs.files[TheArtifact(s)].data)
                /\ (Find(fs.files[TheArtifact(s)].data, "\\", 1) = 0 =>
                        download'[s].data = fs.files[TheArtifact(s)].data)
                /\ download'[s].file_name =
                       SplitExtStem(uploaded_files[s][1].name) \o ".md"
                /\ download'[s].entries = {}]_vars

\* C8 witness: b.pdf was uploaded, the one artifact a.md holds \[x\]\(y\),
\* and the download is $$x$$$y$ under the name b.md.
C8_Witness ==
    \E s \in Sessions :
        /\ pc[s] = "finally"
        /\ markdown_files[s] = {File(markdown_dir, "a.md")}
        /\ download[s].kind = "markdown"
        /\ download[s].data = "$$x$$$y$"
        /\ download[s].file_name = "b.md"

\* C9: with more than one artifact the download is an archive that has, for
\* each artifact, one entry named by the artifact's path below the markdown
\* directory, entries of different artifacts having different names, and
\* nothing else.
OffersArchive(s) == pc[s] = "deliver" /\ pc'[s] # "deliver"
EntryOf(e, p) == markdown_dir \o e.name.dir = p.dir /\ e.name.leaf = p.leaf

C9_ArchiveMatchesArtifacts ==
    [][\A s \in Sessions :
          OffersArchive(s) =>
              LET arts == markdown_files[s]
                  ents == download'[s].entries
              IN  /\ download'[s].kind = "zip"
                  /\ Cardinality(arts) > 1
                  /\ Cardinality(ents) = Cardinality(arts)
                  /\ \A p \in arts : \E e \in ents : EntryOf(e, p)
                  /\ \A e \in ents : \E p \in arts : EntryOf(e, p)
                  /\ \A e1, e2 \in ents : e1.name = e2.name => e1 = e2]_vars

\* C9 for one user: the archive is as above, and every entry holds the bytes
\* of its artifact.
C9_ArchiveMatchesArtifactsOneUser ==
    [][\A s \in Sessions :
          OffersArchive(s) =>
              LET arts == markdown_files[s]
                  ents == download'[s].entries
                  Of(e, p) == EntryOf(e, p) /\ FileExists(fs, p)
                                            /\ e.data = fs.files[p].data
              IN  /\ download'[s].kind = "zip"
                  /\ Cardinality(arts) > 1
                  /\ Cardinality(ents) = Cardinality(arts)
                  /\ \A p \in arts : \E e \in ents : Of(e, p)
                  /\ \A e \in ents : \E p \in arts : Of(e, p)
                  /\ \A e1, e2 \in ents : e1.name = e2.name => e1 = e2]_vars

\* C9 witness: a.md and d1/a.md were collected and the archive has the two
\* entries a.md and d1/a.md.
C9_Witness ==
    \E s \in Sessions :
        /\ pc[s] = "finally"
        /\ markdown_files[s] = {File(markdown_dir, "a.md"), File(markdown_dir \o <<"d1">>, "a.md")}
        /\ {e.name : e \in download[s].entries} = {File(<< >>, "a.md"), File(<<"d1">>, "a.md")}

\* C10 as stated: a request whose process exited 0 and whose walk found no
\* artifact offers no download and shows neither an error nor a success.
ZeroArtifacts(s) ==
    /\ pc[s] = "finally"
    /\ return_code[s] = <<0>>
    /\ markdown_files[s] = {}

NoFilesGenerated ==
    Msg("warning", "Conversion completed but no markdown files were generated", 0)
NoDirectoryCreated ==
    Msg("warning", "Conversion completed but no markdown directory was created", 0)
NoFilesAnywhere ==
    Msg("error", "No markdown files found anywhere in the workspace", 0)
StrayFiles(n) == Msg("warning", "Found markdown files in unexpected locations", n)

C10_EmptyResultNeitherErrorNorSuccess ==
    \A s \in Sessions :
        ZeroArtifacts(s) =>
            /\ download[s] = NoDownload
            /\ \A m \in messages[s] : m[1] \notin {"error", "success"}

\* C10 amended: such a request offers no download and shows neither the
\* success message nor the failure of a nonzero exit; with the markdown
\* directory present it shows one warning under the status "Conversion
\* completed successfully!", with the directory absent it shows a warning and
\* then either the stray markdown files found in the workspace or, when there
\* are none, the error that no markdown file was found anywhere.
C10_EmptyResultReport ==
    \A s \in Sessions :
        ZeroArtifacts(s) =>
            /\ download[s] = NoDownload
            /\ \A m \in messages[s] :
                   /\ m[1] # "success"
                   /\ m[2] \notin {"Conversion failed with return code",
                                   "An error occurred during conversion"}
            /\ status_text[s] # "Conversion failed"
            /\ \/ /\ messages[s] = {NoFilesGenerated}
                  /\ status_text[s] = "Conversion completed successfully!"
               \/ /\ messages[s] = {NoDirectoryCreated, NoFilesAnywhere}
                  /\ status_text[s] = "Processing results..."
               \/ /\ \E n \in 1..Cardinality(DOMAIN fs.files) :
                         {m \in messages[s] : m[1] # "write"} =
                             {NoDirectoryCreated, StrayFiles(n)}
                  /\ status_text[s] = "Processing results..."

\* C10 witness: the process made the markdown directory, wrote no markdown
\* and exited 0; the request shows the one warning.
C10_Witness ==
    \E s \in Sessions :
        /\ ZeroArtifacts(s)
        /\ DirExists(fs, markdown_dir)
        /\ messages[s] = {NoFilesGenerated}

\* C11: whatever the request's outcome, a removal that fails during cleanup
\* adds one warning and nothing else: the request ends, and the status line
\* and every message shown before (the failure with its exit status, the
\* success, the warnings of an empty result, the error of a failed start)
\* are the ones a successful cleanup leaves.
CleansUp(s) == pc[s] = "finally" /\ pc'[s] # "finally"
CleanupWarning == Msg("warning", "Could not clean up session files", 0)

C11_CleanupNeverChangesOutcome ==
    [][\A s \in Sessions :
          CleansUp(s) =>
              /\ pc'[s] = "done"
              /\ status_text'[s] = status_text[s]
              /\ messages[s] \subseteq messages'[s]
              /\ messages'[s] \ messages[s] \subseteq {CleanupWarning}
              /\ \A m \in messages'[s] : m[1] = "error" => m \in messages[s]]_vars

\* C11 witness: the process exited with 137, the removal of the staged
\* input failed, and the request has ended showing the failure with 137 and
\* the warning, the staged input still in place.
C11_Witness ==
    \E s \in Sessions :
        /\ pc[s] = "done"
        /\ messages[s] = {RuntimeFailure(137), CleanupWarning}
        /\ status_text[s] = "Conversion failed"
        /\ Walk(fs, pdf_dir) # {}

\* the lines of the log that carry a marker of each class
WithError == {line \in StrippedLines : HasAny(line, ErrorMarkers)}
WithWarning == {line \in StrippedLines : HasAny(line, WarningMarkers)}
WithSuccess == {line \in StrippedLines : HasAny(line, SuccessMarkers)}
WithConnection == {line \in StrippedLines : HasAny(line, ConnectionMarkers)}

\* the tag a shown line carries: the prefix put before the line
ShownTag(shown, line) ==
    CASE shown = ":fire: " \o line -> "error"
      [] shown = ":warning: " \o line -> "warning"
      [] shown = ":check: " \o line -> "success"
      [] shown = line -> "normal"
      [] OTHER -> "none"

\* the tag the claimed priority order gives a line; no line of the program
\* carries a 'no work to do' marker, for the program knows none
ClaimedTag(line) ==
    IF line \in WithError THEN "error"
    ELSE IF line \in WithWarning THEN "warning"
    ELSE IF line \in WithConnection THEN "connection_error"
    ELSE "normal"

\* C12 as claimed: every line of the log is tagged with the highest class
\* present on it in the order error, warning, 'no work to do', connection
\* error, else normal.
C12_ClaimedPriorityOrder ==
    \A s \in Sessions : \A i \in 1..Len(log_lines[s]) :
        /\ i <= Len(log_text[s])
        /\ ShownTag(log_text[s][i], log_lines[s][i]) = ClaimedTag(log_lines[s][i])

\* C12 as amended: every line of the log is shown with exactly one tag, the
\* first class present on it in the order error, warning, success, else
\* normal (the line as it is); a connection-error marker gives no tag of its
\* own; every line read is tagged, whatever it holds.
C12_PriorityOrder ==
    \A s \in Sessions :
        /\ Len(log_text[s]) = Len(log_lines[s])
        /\ \A i \in 1..Len(log_lines[s]) :
             LET line == log_lines[s][i]
                 tag == ShownTag(log_text[s][i], line)
             IN  /\ line \in WithError => tag = "error"
                 /\ line \notin WithError /\ line \in WithWarning => tag = "warning"
                 /\ line \notin WithError \cup WithWarning /\ line \in WithSuccess
                        => tag = "success"
                 /\ line \notin WithError \cup WithWarning \cup WithSuccess
                        => tag = "normal"

\* C12 witness: a log of three lines has been read, the first with an error
\* and a warning marker, the second with a warning and a success marker, the
\* third with a connection marker only; they are shown as error, warning and
\* normal.
C12_Witness ==
    /\ log_lines["s1"] = <<"ERROR page 2 :warning: retried",
                           "WARNING slow, then SUCCESS",
                           ":plug: reconnecting">>
    /\ log_text["s1"] = <<":fire: ERROR page 2 :warning: retried",
                          ":warning: WARNING slow, then SUCCESS",
                          ":plug: reconnecting">>

\* line is output without the whitespace at its two ends: output is
\* whitespace, then line, then whitespace, and line neither starts nor ends
\* with whitespace
IsTrimOf(line, output) ==
    /\ line = "" \/ (/\ ~IsSpace(SubSeq(line, 1, 1))
                     /\ ~IsSpace(SubSeq(line, Len(line), Len(line))))
    /\ \E i \in 1..(Len(output) + 1) :
          /\ i + Len(line) - 1 <= Len(output)
          /\ SubSeq(output, i, i + Len(line) - 1) = line
          /\ \A k \in 1..Len(output) :
                k < i \/ k > i + Len(line) - 1 => IsSpace(SubSeq(output, k, k))

TrimPairs ==
    {pair \in PrintedLines \X StrippedLines : IsTrimOf(pair[2], pair[1])}

\* the line without its line terminator
UnterminatedPairs ==
    {pair \in PrintedLines \X StrippedLines :
        pair[1] \in {pair[2], pair[2] \o "\n"}}

Draining(s) == pc[s] = "drain" /\ process[job[s]].state # "reaped"

\* the tags of an error line, a warning-only line and a line with no marker
TaggedAsClaimed(s) ==
    \A i \in 1..Len(log_lines[s]) :
        LET line == log_lines[s][i]
            tag == ShownTag(log_text[s][i], line)
        IN  /\ line \in WithError => tag = "error"
            /\ line \in WithWarning \ WithError => tag = "warning"
            /\ line \notin WithError \cup WithWarning \cup WithSuccess
                   => tag = "normal"

\* the log and the lines still in the pipe are the emitted lines, in order
InEmittedOrder(s, pairs) ==
    LET emitted == process[job[s]].emitted
    IN  /\ Len(log_lines[s]) + Len(pipe[job[s]]) = Len(emitted)
        /\ Len(log_text[s]) = Len(log_lines[s])
        /\ \A i \in 1..Len(log_lines[s]) : <<emitted[i], log_lines[s][i]>> \in pairs
        /\ \A i \in 1..Len(pipe[job[s]]) :
              pipe[job[s]][i] = emitted[Len(log_lines[s]) + i]

\* C13 as claimed: while a process is followed, the transcript has the
\* length and order of the lines read so far, its i-th entry is the i-th
\* emitted line unchanged (but for the line terminator), and the tags of
\* error, warning-only and unmarked lines are error, warning and normal.
C13_TranscriptLossless ==
    \A s \in Sessions :
        Draining(s) => InEmittedOrder(s, UnterminatedPairs) /\ TaggedAsClaimed(s)

\* C13 as amended: the same, but the i-th entry is the i-th emitted line
\* without the whitespace at its two ends (indentation, trailing blanks and
\* the line terminator are lost); no character between them is changed.
C13_TranscriptStripped ==
    \A s \in Sessions :
        Draining(s) => InEmittedOrder(s, TrimPairs) /\ TaggedAsClaimed(s)

\* C13 witness: the process has printed an error line, a warning line and an
\* indented line without marker; all three have been read and are shown as
\* error, warning and normal, the third without its indentation.
C13_Witness ==
    /\ Draining("s1")
    /\ process[job["s1"]].emitted = <<"ERROR page 2 :warning: retried\n",
                                      "WARNING slow, then SUCCESS\n",
                                      "  \tindented \n">>
    /\ log_lines["s1"] = <<"ERROR page 2 :warning: retried",
                           "WARNING slow, then SUCCESS",
                           "indented">>
    /\ log_text["s1"] = <<":fire: ERROR page 2 :warning: retried",
                          ":warning: WARNING slow, then SUCCESS",
                          "indented">>

IndexOf(vector, token) ==
    IF \E i \in 1..Len(vector) : vector[i] = token
      THEN CHOOSE i \in 1..Len(vector) : vector[i] = token
      ELSE 0
Count(vector, token) == Cardinality({i \in 1..Len(vector) : vector[i] = token})

\* the canonical names of up to three selected languages, joined by commas
Canonical(selected) ==
    CASE selected = "English" -> "ENGLISH"
      [] selected = "Portuguese" -> "PORTUGUESE"
      [] selected = "Spanish" -> "SPANISH"
CommaJoined(selected_langs) ==
    CASE Len(selected_langs) = 1 -> Canonical(selected_langs[1])
      [] Len(selected_langs) = 2 ->
             Canonical(selected_langs[1]) \o "," \o Canonical(selected_langs[2])
      [] Len(selected_langs) = 3 ->
             Canonical(selected_langs[1]) \o "," \o Canonical(selected_langs[2])
                 \o "," \o Canonical(selected_langs[3])

\* C15: the vector of a build with no language selected holds no language
\* flag; the vector of a build with languages selected holds the flag
\* once, and the token after it is the canonical names of the selected
\* languages, in the order selected, joined by commas.
C15_LanguagesFlag ==
    built.cmd # << >> =>
        IF built.selected_langs = << >>
          THEN Count(built.cmd, "--languages_to_keep") = 0
          ELSE /\ Count(built.cmd, "--languages_to_keep") = 1
               /\ IndexOf(built.cmd, "--languages_to_keep") < Len(built.cmd)
               /\ built.cmd[IndexOf(built.cmd, "--languages_to_keep") + 1]
                      = CommaJoined(built.selected_langs)

\* C15 witness: Portuguese then English were selected and the vector ends
\* with the flag and PORTUGUESE,ENGLISH.
C15_Witness ==
    /\ built.selected_langs = <<"Portuguese", "English">>
    /\ Len(built.cmd) >= 2
    /\ built.cmd[Len(built.cmd) - 1] = "--languages_to_keep"
    /\ built.cmd[Len(built.cmd)] = "PORTUGUESE,ENGLISH"

\* the optional flags in their order, when each is due, and its value
FlagOrder ==
    <<"--vllm_base_url", "--vllm_api_key", "--target_longest_image_dim",
      "--apply_filter", "--guided_decoding", "--workers", "--languages_to_keep">>
FlagDue(b) ==
    <<b.config.vllm_base_url # "",
      b.api_key.found /\ b.api_key.value # "",
      b.config.target_dim # 0,
      b.config.apply_filter,
      b.config.guided_decoding,
      b.config.workers # 0,
      b.selected_langs # << >>>>
FlagValue(b) ==
    <<b.config.vllm_base_url, b.api_key.value, ToString(b.config.target_dim),
      "", "", ToString(b.config.workers),
      IF b.selected_langs = << >> THEN "" ELSE CommaJoined(b.selected_langs)>>
Valued == {1, 2, 3, 6, 7}

\* C16: the vector of every build is the interpreter's call of the
\* pipeline, the workspace path, the markdown flag, the input-list flag and
\* the staged paths in staging order, and then the optional flags: each
\* once if and only if its value is present, true or non-empty, in the
\* order URL, credential, dimension, filter, guided decoding, workers,
\* languages, each valued flag followed by its value, and nothing else.
C16_FixedLayout ==
    built.cmd # << >> =>
        LET v == built.cmd
            n == Len(built.paths)
            rest == SubSeq(v, 7 + n, Len(v))
            due == FlagDue(built)
            at == [k \in 1..7 |-> IndexOf(rest, FlagOrder[k])]
        IN  /\ Len(v) >= 6 + n
            /\ SubSeq(v, 1, 3) = <<"python", "-m", "olmocr.pipeline">>
            /\ v[4] = "/workspace"
            /\ v[5] = "--markdown"
            /\ v[6] = "--pdfs"
            /\ \A i \in 1..n :
                  v[6 + i] = "/workspace/" \o built.paths[i].dir[1] \o "/"
                                 \o built.paths[i].leaf
            /\ \A k \in 1..7 : Count(rest, FlagOrder[k]) = IF due[k] THEN 1 ELSE 0
            /\ \A k, l \in 1..7 : k < l /\ due[k] /\ due[l] => at[k] < at[l]
            /\ \A k \in Valued :
                  due[k] => at[k] < Len(rest) /\ rest[at[k] + 1] = FlagValue(built)[k]
            /\ Len(rest) = Cardinality({k \in 1..7 : due[k]})
                              + Cardinality({k \in Valued : due[k]})

\* C16 witness: two documents were staged, the key is set, the filter is
\* off, guided decoding is on and no language is selected: the vector has
\* the two paths in order and then URL, key, dimension, guided decoding and
\* workers.
C16_Witness ==
    /\ Len(built.paths) = 2
    /\ built.paths[1] # built.paths[2]
    /\ SubSeq(built.cmd, 9, Len(built.cmd)) =
           <<"--vllm_base_url", "http://vllm-server:30024", "--vllm_api_key", "sk-1",
             "--target_longest_image_dim", "1288", "--guided_decoding",
             "--workers", "4">>

\* the state of the job of a session's request: NotStarted until the
\* process is spawned, Running while the loop follows it, then Succeeded or
\* Failed by its exit status; StartupFailed when Popen raised
JobState(s) ==
    IF job[s] = NoJob THEN "NotStarted"
    ELSE LET p == process[job[s]]
         IN  CASE p.state \in {"running", "exited"} -> "Running"
               [] p.state = "reaped" ->
                      IF pc[s] = "evaluate"
                        THEN IF return_code[s] = <<0>> THEN "Succeeded" ELSE "Failed"
                        ELSE IF \E m \in messages[s] :
                                    m[2] = "Conversion failed with return code"
                               THEN "Failed" ELSE "Succeeded"
               [] OTHER ->
                      IF /\ pc[s] \in {"finally", "done"}
                         /\ status_text[s] = "Running olmOCR conversion..."
                        THEN "StartupFailed" ELSE "NotStarted"

JobTransitions ==
    {<<"NotStarted", "Running">>, <<"Running", "Succeeded">>,
     <<"Running", "Failed">>, <<"NotStarted", "StartupFailed">>}

\* C17: in every step the job of a request keeps its state or takes one of
\* the transitions NotStarted -> Running, Running -> Succeeded, Running ->
\* Failed, NotStarted -> StartupFailed, so that a terminal state is never
\* left; only a new start request begins again, at NotStarted; and the
\* process of a job starts running only if it has never run.
C17_JobStateMachine ==
    [][/\ \A s \in Sessions :
            IF job'[s] = job[s]
              THEN \/ JobState(s)' = JobState(s)
                   \/ <<JobState(s), JobState(s)'>> \in JobTransitions
              ELSE JobState(s)' = "NotStarted" /\ job'[s] = jobs + 1
       /\ \A j \in Jobs :
            process'[j].state = "running" /\ process[j].state # "running"
                => process[j].state = "none"]_vars

\* C17 witness: the request has ended, its process ran once, exited with 137
\* and was not started again: the job is Failed.
C17_Witness ==
    \E s \in Sessions :
        /\ pc[s] = "done"
        /\ JobState(s) = "Failed"
        /\ process[job[s]].state = "reaped"
        /\ RuntimeFailure(137) \in messages[s]

LeavesLoop(s) == pc[s] = "drain" /\ pc'[s] # "drain"

\* C18: when the loop is left the log holds every line the process has
\* printed, in the order printed (stripped as the loop strips), none left in
\* the pipe; and while the loop runs the log and what is shown of it only
\* grow at the end.
C18_NoLineMissed ==
    [][\A s \in Sessions :
          /\ LeavesLoop(s) =>
                LET emitted == process[job[s]].emitted
                IN  /\ pipe[job[s]] = << >>
                    /\ log_lines'[s] = [i \in 1..Len(emitted) |-> StripOf[emitted[i]]]
          /\ pc[s] = "drain" =>
                /\ IsPrefix(log_lines[s], log_lines'[s])
                /\ IsPrefix(log_text[s], log_text'[s])]_vars

\* C18 witness: the loop has been left after a process that printed three
\* lines and exited with 137, and the log holds the three.
C18_Witness ==
    /\ pc["s1"] = "evaluate"
    /\ return_code["s1"] = <<137>>
    /\ log_lines["s1"] = <<"Processing page 1", ":check: page 3", "CONNECTION ERROR refused">>

\* C19: the loop is left only when the process has exited and the output
\* is at its end with nothing unread, and then with the exit status of the
\* process; once the process has exited a read returns at once, a line or
\* the end of the output; and once it has exited with the output at its end
\* the loop is left, with an exit status.
C19_DrainTerminates ==
    /\ [][\A s \in Sessions :
            LeavesLoop(s) =>
                /\ Polled(job[s])
                /\ AtEndOfFile(job[s])
                /\ pc'[s] = "evaluate"
                /\ return_code'[s] = <<process[job[s]].returncode>>]_vars
    /\ [](\A s \in Sessions :
            pc[s] = "drain" /\ Polled(job[s])
                => pipe[job[s]] # << >> \/ AtEndOfFile(job[s]))
    /\ \A s \in Sessions :
            (pc[s] = "drain" /\ Polled(job[s]) /\ AtEndOfFile(job[s]))
                ~> (pc[s] = "evaluate" /\ return_code[s] # << >>)

\* C19 witness: the loop has been left with the exit status 0 of a process
\* that printed one line.
C19_Witness ==
    /\ pc["s1"] = "evaluate"
    /\ return_code["s1"] = <<0>>
    /\ process[job["s1"]].state = "reaped"
    /\ Len(log_lines["s1"]) = 1

\* C20: the loop is in no state where an iteration reads nothing and does
\* not leave: the output at its end while the process is alive.
C20_NeverBusyPolls ==
    \A s \in Sessions :
        ~(/\ pc[s] = "drain"
          /\ AtEndOfFile(job[s])
          /\ ~Polled(job[s]))

PopenRaises(s) ==
    pc[s] = "spawn" /\ pc'[s] # "spawn" /\ process'[job[s]].state # "running"
ConversionError == Msg("error", "An error occurred during conversion", 0)

\* C21: when Popen raises, the request goes straight to its finally with the
\* error shown and the job StartupFailed; and a job that is StartupFailed has
\* no process, was never followed by the loop (no log), has no exit status,
\* no collected files and no download, shows the error and no success, and
\* its request only ends.
C21_StartupFailure ==
    /\ [][\A s \in Sessions :
            PopenRaises(s) =>
                /\ pc'[s] = "finally"
                /\ ConversionError \in messages'[s]
                /\ JobState(s)' = "StartupFailed"]_vars
    /\ [](\A s \in Sessions :
            JobState(s) = "StartupFailed" =>
                /\ pc[s] \in {"finally", "done"}
                /\ process[job[s]].state = "none"
                /\ pipe[job[s]] = << >>
                /\ log_lines[s] = << >>
                /\ return_code[s] = << >>
                /\ markdown_files[s] = {}
                /\ download[s] = NoDownload
                /\ ConversionError \in messages[s]
                /\ \A m \in messages[s] : m[1] # "success")

\* C21 witness: the request has ended after Popen raised: the job is
\* StartupFailed, the error is shown, there is no process and no exit status.
C21_Witness ==
    \E s \in Sessions :
        /\ pc[s] = "done"
        /\ JobState(s) = "StartupFailed"
        /\ messages[s] = {ConversionError}
        /\ process[job[s]].state = "none"
        /\ return_code[s] = << >>

StagedOf(s) == {pdf_paths[s][i] : i \in 1..Len(pdf_paths[s])}
StagingCompleted(s) == cleanup_session_files[s]
RequestEnds(s) == pc[s] # "done" /\ pc'[s] = "done"
RemovesStaged(s) == \E p \in StagedOf(s) : FileExists(fs, p) /\ ~FileExists(fs', p)

\* what a request shows of its job's outcome: the success, an empty result,
\* the failure with its exit status, or the error of a failed start or of an
\* exception during the run
OutcomeShown(s) ==
    \/ \E m \in messages[s] : m[1] = "success"
    \/ NoFilesGenerated \in messages[s]
    \/ NoDirectoryCreated \in messages[s]
    \/ \E code \in ExitCodes : RuntimeFailure(code) \in messages[s]
    \/ ConversionError \in messages[s]

\* C22: a request whose staging completed ends only by the step that calls the
\* cleanup of its staged paths (after it every staged path is gone, or the
\* warning of a failed removal is shown), that step is the request's last, so
\* the cleanup is called once; and no staged path of a running request is
\* removed before the job's outcome is shown: the request never ends with the
\* cleanup still due, and it reaches its finally block only with an outcome.
C22_CleanupOnceAfterOutcome ==
    /\ [][\A s \in Sessions :
            /\ (StagingCompleted(s) /\ RequestEnds(s)) =>
                  /\ pc[s] = "finally"
                  /\ \/ \A p \in StagedOf(s) : ~FileExists(fs', p)
                     \/ CleanupWarning \in messages'[s]
                  /\ ~StagingCompleted(s)'
            /\ RemovesStaged(s) =>
                  /\ pc[s] = "finally" /\ pc'[s] = "done"
                  /\ OutcomeShown(s)
            /\ (StagingCompleted(s) /\ ~StagingCompleted(s)') => RequestEnds(s)]_vars
    /\ [](\A s \in Sessions :
            /\ StagingCompleted(s) =>
                  pc[s] \in {"spawn", "drain", "evaluate", "package", "deliver", "finally"}
            /\ (pc[s] = "finally" /\ StagingCompleted(s)) => OutcomeShown(s))

\* C22 witness: an exception inside the loop was shown, the cleanup ran and
\* the request has ended with none of its staged files left.
C22_Witness ==
    \E s \in Sessions :
        /\ pc[s] = "done"
        /\ process[job[s]].state \in {"running", "exited"}
        /\ ConversionError \in messages[s]
        /\ StagedBy(fs, job[s]) = {}

\* C23: whenever a request is in its finally block or has ended, the
\* process of its job is not running: no request leaves the loop on an error
\* path, or removes its staged inputs, with the process alive.
C23_ProcessStoppedOnAbort ==
    \A s \in Sessions :
        (Requested(s) /\ pc[s] \in {"finally", "done"}) =>
            process[job[s]].state # "running"

\* the step that evaluates an exit status of 0 with no markdown directory
DirectoryAbsent(s) ==
    /\ pc[s] = "evaluate" /\ pc'[s] # "evaluate"
    /\ return_code[s] = <<0>>
    /\ ~DirExists(fs, markdown_dir)
Written(shown) == {m[2] : m \in {x \in shown : x[1] = "write"}}
ReportedSuccessful(s) ==
    \/ \E m \in messages[s] : m[1] = "success"
    \/ status_text[s] = "Conversion completed successfully!"
    \/ download[s] # NoDownload

\* C24: on an exit status of 0 with the markdown directory absent, the
\* request shows 'No markdown files found anywhere in the workspace' exactly
\* when no file of the workspace, at any depth, has a name ending in .md;
\* otherwise it shows their number and, for each of them and for nothing
\* else, the path that joined to the workspace root gives the file's path;
\* it collects nothing and goes to its finally block; and a request that
\* shows the missing directory never shows a success, the status of a
\* completed conversion or a download.
C24_FallbackScan ==
    /\ [][\A s \in Sessions :
            DirectoryAbsent(s) =>
                LET matching == {p \in DOMAIN fs.files : EndsWith(p.leaf, ".md")}
                IN  /\ NoDirectoryCreated \in messages'[s]
                    /\ NoFilesAnywhere \in messages'[s] <=> matching = {}
                    /\ matching # {} => StrayFiles(Cardinality(matching)) \in messages'[s]
                    /\ \A p \in matching : \E w \in Written(messages'[s]) :
                           workspace_root \o "/" \o w = PathString(p)
                    /\ \A w \in Written(messages'[s]) : \E p \in matching :
                           workspace_root \o "/" \o w = PathString(p)
                    /\ markdown_files'[s] = {}
                    /\ pc'[s] = "finally"]_vars
    /\ [](\A s \in Sessions :
            NoDirectoryCreated \in messages[s] => ~ReportedSuccessful(s))

\* C24 witness: the process wrote outputs/stray.md, made no markdown
\* directory and exited 0; the request shows the missing directory, one file
\* found and its relative path.
C24_Witness ==
    \E s \in Sessions :
        /\ pc[s] = "finally"
        /\ return_code[s] = <<0>>
        /\ ~DirExists(fs, markdown_dir)
        /\ messages[s] = {NoDirectoryCreated, StrayFiles(1),
                          Msg("write", "outputs/stray.md", 0)}

\* C25: a request that has ended has left none of the files it staged in
\* the inputs area, whatever its outcome, a failed preparation included.
C25_NoStagedInputOutlivesRequest ==
    \A s \in Sessions :
        (Requested(s) /\ pc[s] = "done") => StagedBy(fs, job[s]) = {}

====
